---- MODULE Spec2Model ----
(***************************************************************************)
(* Powernap query engine: request arguments -> operation queue -> per      *)
(* column-type dispatch -> pagination (powernap/query/transformer.py,      *)
(* columns.py, methods.py).                                                *)
(*                                                                         *)
(* Strings are sequences of tokens: an identifier, "$", "__", "-" or ",".  *)
(* "$name__icontains" is <<"$", "name", "__", "icontains">>, so that       *)
(* startswith, slicing, `in` and split are computed, not assumed.          *)
(*                                                                         *)
(* The collaborators of the engine have their own specifications:          *)
(* SpecResponse (architect/responses.py), SpecLimiter (auth/rate_limit.py) *)
(* and SpecDevice (auth/two_factor/models.py).                             *)
(***************************************************************************)
EXTENDS Integers, Sequences, FiniteSets, TLC

\* ------------------------------------------------------------------ bounds
MaxArgs == 2        \* entries of request.args
MaxRows == 2        \* rows the storage may report for the filtered query
MaxClients == 2     \* concurrent requests sharing one rate-limit token
MaxCalls == 3       \* requests started within one expiry window
MaxTime == 3        \* time steps the clock runs through
MaxDrift == 2       \* drift the device may reach, in time steps

\* ------------------------------------------------------- python values
NoneV == [t |-> "none", s |-> <<>>, n |-> 0]
StrV(ts) == [t |-> "str", s |-> ts, n |-> 0]
IntV(i) == [t |-> "int", s |-> <<>>, n |-> i]
DateTimeV(i) == [t |-> "datetime", s |-> <<>>, n |-> i]

\* the decimal literals the model uses, with their values
Digits == [x \in {"1", "2", "7", "999", "1000"} |->
             CASE x = "1" -> 1 [] x = "2" -> 2 [] x = "7" -> 7
               [] x = "999" -> 999 [] x = "1000" -> 1000]

\* int(v): the integer, or the exception int() raises
PyInt(v) ==
  CASE v.t = "int" -> [exc |-> "none", n |-> v.n]
    [] v.t = "str" ->
         IF Len(v.s) = 1 /\ v.s[1] \in DOMAIN Digits
         THEN [exc |-> "none", n |-> Digits[v.s[1]]]
         ELSE [exc |-> "ValueError", n |-> 0]
    [] OTHER -> [exc |-> "TypeError", n |-> 0]

\* ------------------------------------------------- dict (insertion ordered)
DictKeys(d) == {d[i][1] : i \in 1..Len(d)}
DictHas(d, k) == k \in DictKeys(d)
DictGet(d, k) == (CHOOSE i \in 1..Len(d) : d[i][1] = k)
DictVal(d, k) == d[DictGet(d, k)][2]
\* d[k] = v : an existing key keeps its position, a new key goes last
DictSet(d, k, v) ==
  IF DictHas(d, k)
  THEN [i \in 1..Len(d) |-> IF d[i][1] = k THEN <<k, v>> ELSE d[i]]
  ELSE Append(d, <<k, v>>)
RECURSIVE DictUpdate(_, _)
DictUpdate(d, e) ==
  IF e = <<>> THEN d
  ELSE DictUpdate(DictSet(d, e[1][1], e[1][2]), Tail(e))
DictPop(d, k) == SelectSeq(d, LAMBDA kv : kv[1] # k)

\* ------------------------------------------------------------ configuration
PAGINATION_PAGE == "page"
PAGINATION_PER_PAGE == "per_page"
ACTIVE_TOKENS_ATTR == <<"id">>

\* -------------------------------------------------------- entity schemas
\* attrs: attribute name -> declared column type ("property" for a python
\* property, which has no .type)
Account ==
  [name |-> "Account",
   attrs |-> [a \in {<<"id">>, <<"name">>, <<"created">>, <<"status">>,
                     <<"level">>, <<"secret">>, <<"active">>} |->
                CASE a = <<"id">> -> "Integer"
                  [] a = <<"active">> -> "Boolean"
                  [] a = <<"name">> -> "String"
                  [] a = <<"created">> -> "DateTime"
                  [] a = <<"status">> -> "Formatted"
                  [] a = <<"level">> -> "Integer"
                  [] a = <<"secret">> -> "String"],
   exposed_fields |-> {<<"id">>, <<"name">>, <<"created">>, <<"status">>,
                       <<"active">>}]

Event ==
  [name |-> "Event",
   attrs |-> [a \in {<<"name">>, <<"created">>, <<"status">>, <<"payload">>,
                     <<"label">>} |->
                CASE a = <<"name">> -> "String"
                  [] a = <<"created">> -> "DateTime"
                  [] a = <<"status">> -> "Formatted"
                  [] a = <<"payload">> -> "JSON"
                  [] a = <<"label">> -> "property"],
   exposed_fields |-> {<<"name">>, <<"payload">>}]

Classes == {Account, Event}

HasAttr(c, a) == a \in DOMAIN c.attrs

\* the label table of the Formatted column: stored integer -> label
value_map == [k \in {1, 2} |-> IF k = 1 THEN <<"active">> ELSE <<"closed">>]

\* ------------------------------------------------------------ callers
\* attrs: the attributes current_user has
Users ==
  { [is_admin |-> FALSE, has_id |-> TRUE, id |-> 42],
    [is_admin |-> TRUE, has_id |-> TRUE, id |-> 1],
    [is_admin |-> FALSE, has_id |-> FALSE, id |-> 0] }

UserHasAttr(u, a) == a = <<"id">> /\ u.has_id
UserAttr(u, a) == IntV(u.id)

\* ------------------------------------------------------------- exceptions
\* options: the valid values an error message lists
NoError == [exc |-> "none", category |-> "", subject |-> <<>>, options |-> {}]
Raise(e) == [exc |-> e, category |-> "", subject |-> <<>>, options |-> {}]
\* InvalidFormError(description={category: ...subject...})
InvalidFormError(category, subject) ==
  [exc |-> "InvalidFormError", category |-> category, subject |-> subject,
   options |-> {}]
\* InvalidFormError(description={'fields': {column: [message listing options]}})
InvalidChoiceError(column, options) ==
  [exc |-> "InvalidFormError", category |-> "fields", subject |-> column,
   options |-> options]

\* ===================================================== transformer.py
\* override_owner_id that keeps a value the arguments already carry
override_owner_id_setdefault(c, u, query_args) ==
  LET attr == ACTIVE_TOKENS_ATTR IN
  IF ~u.is_admin /\ HasAttr(c, attr) /\ UserHasAttr(u, attr)
       /\ ~DictHas(query_args, attr)
  THEN DictSet(query_args, attr, UserAttr(u, attr))
  ELSE query_args

\* override_owner_id(cls, query_args)
override_owner_id(c, u, query_args) ==
  LET attr == ACTIVE_TOKENS_ATTR IN
  IF ~u.is_admin /\ HasAttr(c, attr) /\ UserHasAttr(u, attr)
  THEN DictSet(query_args, attr, UserAttr(u, attr))
  ELSE query_args

\* get_query_args_for_cls that overrides whatever enforce_owner says
get_query_args_for_cls_always(c, u, request_args, enforce_owner, kw) ==
  override_owner_id(c, u, DictUpdate(request_args, kw))

\* get_query_args_for_cls(cls, enforce_owner, **kwargs)
get_query_args_for_cls(c, u, request_args, enforce_owner, kw) ==
  LET args == DictUpdate(request_args, kw) IN
  IF enforce_owner THEN override_owner_id(c, u, args) ELSE args

\* self.pagination = (self.page, self.per_page)
pagination == <<PAGINATION_PAGE, PAGINATION_PER_PAGE>>

\* the loop reading the directives with kwargs[key] instead of kwargs.pop(key)
RECURSIVE PopLoop_no_pop(_, _)
PopLoop_no_pop(i, st) ==
  IF i > Len(pagination) \/ st.exc # "none" THEN st
  ELSE LET key == <<"$", pagination[i]>> IN
       IF DictHas(st.kwargs, key)
       THEN LET r == PyInt(DictVal(st.kwargs, key)) IN
            CASE r.exc = "none" ->
                   PopLoop_no_pop(i + 1, [st EXCEPT
                       !.paginate = DictSet(st.paginate, pagination[i], r.n)])
              [] r.exc = "TypeError" -> PopLoop_no_pop(i + 1, st)
              [] OTHER -> [st EXCEPT !.exc = r.exc]
       ELSE PopLoop_no_pop(i + 1, st)

\* the loop of pop_pagination_kwargs from position i on; st carries the
\* paginate dict, the (mutated) kwargs and the exception that ended the loop
RECURSIVE PopLoop(_, _)
PopLoop(i, st) ==
  IF i > Len(pagination) \/ st.exc # "none" THEN st
  ELSE LET key == <<"$", pagination[i]>> IN
       IF DictHas(st.kwargs, key)
       THEN LET r == PyInt(DictVal(st.kwargs, key))
                popped == DictPop(st.kwargs, key) IN
            CASE r.exc = "none" ->
                   PopLoop(i + 1, [st EXCEPT !.kwargs = popped,
                       !.paginate = DictSet(st.paginate, pagination[i], r.n)])
              [] r.exc = "TypeError" ->
                   PopLoop(i + 1, [st EXCEPT !.kwargs = popped])
              [] OTHER -> [st EXCEPT !.kwargs = popped, !.exc = r.exc]
       ELSE PopLoop(i + 1, st)

\* pop_pagination_kwargs without the default of page
pop_pagination_kwargs_no_default(kw) ==
  PopLoop(1, [paginate |-> <<>>, kwargs |-> kw, exc |-> "none"])

\* pop_pagination_kwargs(kwargs)
pop_pagination_kwargs(kw) ==
  LET st == PopLoop(1, [paginate |-> <<>>, kwargs |-> kw, exc |-> "none"]) IN
  IF st.exc = "none" /\ Len(st.paginate) # Len(pagination)
  THEN [st EXCEPT !.paginate = DictSet(st.paginate, PAGINATION_PAGE, 1)]
  ELSE st

\* str.split('__')
RECURSIVE Split(_)
Split(ts) ==
  IF \A i \in 1..Len(ts) : ts[i] # "__" THEN <<ts>>
  ELSE LET p == CHOOSE i \in 1..Len(ts) :
                  ts[i] = "__" /\ \A j \in 1..(i - 1) : ts[j] # "__"
       IN <<SubSeq(ts, 1, p - 1)>> \o Split(SubSeq(ts, p + 1, Len(ts)))

NoName == <<>>      \* None as a column or function name

\* one turn of the loop of prep_for_impl: the deque method and the tuple
PrepItem(c, key, value) ==
  IF key # <<>> /\ Head(key) = "$" /\ ~HasAttr(c, Tail(key))
  THEN LET column == Tail(key) IN
       IF \E i \in 1..Len(column) : column[i] = "__"
       THEN LET parts == Split(column) IN
            IF Len(parts) = 2
            THEN [exc |-> "none", method |-> "append",
                  tuple |-> [column |-> parts[1], value |-> value,
                             func |-> parts[2]]]
            ELSE [exc |-> "ValueError", method |-> "append",
                  tuple |-> [column |-> column, value |-> value,
                             func |-> NoName]]
       ELSE [exc |-> "none", method |-> "append",
             tuple |-> [column |-> NoName, value |-> value, func |-> column]]
  ELSE [exc |-> "none", method |-> "appendleft",
        tuple |-> [column |-> key, value |-> value, func |-> NoName]]

\* the loop with every tuple pushed to the back
RECURSIVE PrepLoop_append_only(_, _, _)
PrepLoop_append_only(c, kw, impl_data) ==
  IF kw = <<>> THEN [exc |-> "none", impl_data |-> impl_data]
  ELSE LET it == PrepItem(c, kw[1][1], kw[1][2]) IN
       IF it.exc # "none" THEN [exc |-> it.exc, impl_data |-> impl_data]
       ELSE PrepLoop_append_only(c, Tail(kw), Append(impl_data, it.tuple))

\* the loop with the specials pushed to the front as well
RECURSIVE PrepLoop_appendleft_only(_, _, _)
PrepLoop_appendleft_only(c, kw, impl_data) ==
  IF kw = <<>> THEN [exc |-> "none", impl_data |-> impl_data]
  ELSE LET it == PrepItem(c, kw[1][1], kw[1][2]) IN
       IF it.exc # "none" THEN [exc |-> it.exc, impl_data |-> impl_data]
       ELSE PrepLoop_appendleft_only(c, Tail(kw), <<it.tuple>> \o impl_data)

\* prep_for_impl(kwargs): the deque, or the exception the unpacking raises
RECURSIVE PrepLoop(_, _, _)
PrepLoop(c, kw, impl_data) ==
  IF kw = <<>> THEN [exc |-> "none", impl_data |-> impl_data]
  ELSE LET it == PrepItem(c, kw[1][1], kw[1][2]) IN
       IF it.exc # "none" THEN [exc |-> it.exc, impl_data |-> impl_data]
       ELSE PrepLoop(c, Tail(kw),
                     IF it.method = "appendleft"
                     THEN <<it.tuple>> \o impl_data
                     ELSE Append(impl_data, it.tuple))

prep_for_impl(c, kw) == PrepLoop(c, kw, <<>>)

\* ========================================================= methods.py
\* a query: the filters and orderings chained so far; joined marks a query
\* whose _from_obj[0] is an _ORMJoin
EmptyQuery(joined) == [filters |-> <<>>, order |-> <<>>, joined |-> joined]
Filter(query, column, op, value) ==
  [query EXCEPT !.filters = Append(@, [column |-> column, op |-> op,
                                       value |-> value])]
Ok(query) == [err |-> NoError, query |-> query, applied |-> TRUE]
Skip(query) == [err |-> NoError, query |-> query, applied |-> FALSE]
Fail(query, e) == [err |-> e, query |-> query, applied |-> FALSE]

\* raise_error(keys=...)
raise_error(keys) == InvalidFormError("query_construction", keys)

Labels == {value_map[k] : k \in DOMAIN value_map}

\* convert_value that leaves a key of the value map as it is
convert_value_keep_key(value) ==
  CASE value.t = "str" /\ value.s \in Labels ->
         [exc |-> "none", value |-> value]
    [] value.t = "int" /\ value.n \in DOMAIN value_map ->
         [exc |-> "none", value |-> value]
    [] OTHER -> [exc |-> "RuntimeError", value |-> value]

\* convert_value inside convert_formatted, for a Formatted column
convert_value(value) ==
  CASE value.t = "str" /\ value.s \in Labels ->
         [exc |-> "none", value |-> value]
    [] value.t = "int" /\ value.n \in DOMAIN value_map ->
         [exc |-> "none", value |-> StrV(value_map[value.n])]
    [] OTHER -> [exc |-> "RuntimeError", value |-> value]

\* str.lower() on the literals the model uses
Lower(ts) == [i \in 1..Len(ts) |-> IF ts[i] = "ACME" THEN "acme" ELSE ts[i]]

\* json.loads(value) yields a list
IsJsonArray(value) ==
  /\ value.t = "str"
  /\ Len(value.s) >= 2
  /\ value.s[1] = "["
  /\ value.s[Len(value.s)] = "]"
  /\ \A i \in 2..(Len(value.s) - 1) : value.s[i] \in DOMAIN Digits \cup {","}

ComparisonOps == {"not_eq", "gt", "gte", "lt", "lte", "like"}
Operators ==
  {"filter_by", "order_by", "icontains", "inside", "not_inside"}
    \cup ComparisonOps
\* module attributes that are not operators: called with (cls, query, column,
\* value), the two functions and the json module raise TypeError and
\* sqlalchemy's func raises IndexError
OtherModuleAttrs == {"raise_error", "convert_formatted", "json", "func"}

\* inside / not_inside without the try/except around json.loads and in_
Membership_uncaught(f, c, query, column, value) ==
  IF column # NoName /\ HasAttr(c, column) /\ c.attrs[column] # "property"
       /\ IsJsonArray(value)
  THEN Ok(Filter(query, column, f, value))
  ELSE Fail(query, Raise("ValueError"))

\* inside / not_inside: the filter on column.in_(json.loads(value)); any
\* exception (json.loads, a missing column, a property without in_) is
\* caught and the query returned as it was
Membership(f, c, query, column, value) ==
  IF column # NoName /\ HasAttr(c, column) /\ c.attrs[column] # "property"
       /\ IsJsonArray(value)
  THEN Ok(Filter(query, column, f, value))
  ELSE Skip(query)

\* the undecorated operator f(cls, query, column, value)
Operator(f, c, query, column, value) ==
  CASE f = "filter_by" ->
         IF column = NoName THEN Fail(query, Raise("TypeError"))
         ELSE IF ~HasAttr(c, column)
         THEN IF query.joined THEN Fail(query, Raise("AttributeError"))
              ELSE Fail(query, raise_error(column))
         ELSE Ok(Filter(query, column, "eq", value))
    [] f = "order_by" ->
         IF value.t # "str" THEN Fail(query, Raise("AttributeError"))
         ELSE LET desc == value.s # <<>> /\ Head(value.s) = "-"
                  name == IF desc THEN Tail(value.s) ELSE value.s IN
              IF HasAttr(c, name) /\ c.attrs[name] # "property"
              THEN Ok([query EXCEPT !.order = Append(@,
                         [column |-> name,
                          modifier |-> IF desc THEN "desc" ELSE "asc"])])
              ELSE Fail(query, raise_error(name))
    [] f = "icontains" ->
         IF column = NoName THEN Fail(query, Raise("TypeError"))
         ELSE IF ~HasAttr(c, column) \/ value.t # "str"
         THEN Fail(query, Raise("AttributeError"))
         ELSE Ok(Filter(query, column, "icontains", StrV(Lower(value.s))))
    [] f \in {"inside", "not_inside"} -> Membership(f, c, query, column, value)
    [] f \in ComparisonOps ->
         IF column = NoName THEN Fail(query, Raise("TypeError"))
         ELSE IF ~HasAttr(c, column) THEN Fail(query, Raise("AttributeError"))
         ELSE Ok(Filter(query, column, f, value))

\* @convert_formatted: inner(cls, query, column, value)
convert_formatted(f, c, query, column, value) ==
  LET col_exists == column # NoName /\ HasAttr(c, column)
      has_type == col_exists /\ c.attrs[column] # "property" IN
  IF col_exists /\ has_type /\ c.attrs[column] = "Formatted"
  THEN LET r == convert_value(value) IN
       IF r.exc = "RuntimeError" THEN Skip(query)
       ELSE Operator(f, c, query, column, r.value)
  ELSE Operator(f, c, query, column, value)

\* getattr(methods, func)(cls, query, column, value)
CallMethod(func, c, query, column, value) ==
  IF Len(func) = 1 /\ func[1] \in Operators
  THEN convert_formatted(func[1], c, query, column, value)
  ELSE IF Len(func) = 1 /\ func[1] \in OtherModuleAttrs
  THEN Fail(query, Raise(IF func[1] = "func" THEN "IndexError"
                         ELSE "TypeError"))
  ELSE Fail(query, Raise("AttributeError"))

\* ========================================================= columns.py
\* the type registry _QueryMeta fills: impl -> handler (BaseQueryColumn
\* registers under impl = None).  columns.py names it query_columns and
\* transformer.py reads it as QUERY_COLUMNS; implement instantiates the
\* handler class the entry names.
QUERY_COLUMNS ==
  [ty \in {"None", "Integer", "Boolean", "String", "UnicodeSafe",
           "DateTime", "Formatted"} |->
     CASE ty = "None" -> "BaseQueryColumn"
       [] ty = "Integer" -> "IntegerQueryColumn"
       [] ty = "Boolean" -> "BooleanQueryColumn"
       [] ty \in {"String", "UnicodeSafe"} -> "StringQueryColumn"
       [] ty = "DateTime" -> "DateTimeQueryColumn"
       [] ty = "Formatted" -> "FormatedQueryColumn"]

\* handlers without any invalid method
Invalid_empty(impl_cls) == {}

\* the class attribute `invalid` of a handler
Invalid(impl_cls) ==
  IF impl_cls \in {"IntegerQueryColumn", "BooleanQueryColumn"}
  THEN {<<"icontains">>} ELSE {}

\* the outcome of a dispatch: the exception raised (or none), the query
\* returned, whether an operator changed the query, and the steps that ran
Outcome(r, log) ==
  [err |-> r.err, query |-> r.query, applied |-> r.applied, log |-> log,
   before |-> r.query]

\* BaseQueryColumn.check_exposed_column(column)
check_exposed_column(c, column) ==
  IF column # NoName /\ column \notin c.exposed_fields
  THEN InvalidFormError("fields", column)
  ELSE NoError

\* BaseQueryColumn.handle_method(column, value, func)
handle_method(impl_cls, c, query, column, value, func, log) ==
  LET fn == IF func = NoName THEN <<"filter_by">> ELSE func IN
  IF fn \in Invalid(impl_cls)
  THEN Outcome(Fail(query, raise_error(fn)), Append(log, "handle_method"))
  ELSE Outcome(CallMethod(fn, c, query, column, value),
               log \o <<"handle_method", "method">>)

\* BaseQueryColumn.handle(column, value, func)
BaseHandle(impl_cls, c, query, column, value, func, log) ==
  LET e == check_exposed_column(c, column) IN
  IF e.exc # "none"
  THEN Outcome(Fail(query, e), Append(log, "check_exposed_column"))
  ELSE handle_method(impl_cls, c, query, column, value, func,
                     Append(log, "check_exposed_column"))

\* DateTimeQueryColumn.handle(column, value, func)
DateTimeHandle(impl_cls, c, query, column, value, func) ==
  IF value.t \in {"int", "str"}
  THEN LET r == PyInt(value) IN
       IF r.exc # "none"
       THEN Outcome(Fail(query, Raise(r.exc)), <<"fromtimestamp">>)
       ELSE BaseHandle(impl_cls, c, query, column, DateTimeV(r.n), func,
                       <<"fromtimestamp">>)
  ELSE BaseHandle(impl_cls, c, query, column, value, func, <<>>)

\* _reverse_value_map_query that returns an unknown label as it came
reverse_value_map_query_lenient(column, query_value) ==
  IF \E k \in DOMAIN value_map : value_map[k] = query_value.s
  THEN [err |-> NoError,
        value |-> IntV(CHOOSE k \in DOMAIN value_map :
                         value_map[k] = query_value.s)]
  ELSE [err |-> NoError, value |-> query_value]

\* FormatedQueryColumn._reverse_value_map_query(column, query_value)
reverse_value_map_query(column, query_value) ==
  IF \E k \in DOMAIN value_map : value_map[k] = query_value.s
  THEN [err |-> NoError,
        value |-> IntV(CHOOSE k \in DOMAIN value_map :
                         value_map[k] = query_value.s)]
  ELSE [err |-> InvalidChoiceError(column, Labels), value |-> query_value]

\* FormatedQueryColumn.handle(column, value, func)
FormatedHandle(impl_cls, c, query, column, value, func) ==
  LET e == check_exposed_column(c, column) IN
  IF e.exc # "none"
  THEN Outcome(Fail(query, e), <<"check_exposed_column">>)
  ELSE IF value.t = "str"
  THEN LET r == reverse_value_map_query(column, value)
           log == <<"check_exposed_column", "_reverse_value_map_query">> IN
       IF r.err.exc # "none" THEN Outcome(Fail(query, r.err), log)
       ELSE handle_method(impl_cls, c, query, column, r.value, func, log)
  ELSE handle_method(impl_cls, c, query, column, value, func,
                     <<"check_exposed_column">>)

\* impl_cls(self.cls, query).handle(column, value, func)
Handle(impl_cls, c, query, column, value, func) ==
  CASE impl_cls = "DateTimeQueryColumn" ->
         DateTimeHandle(impl_cls, c, query, column, value, func)
    [] impl_cls = "FormatedQueryColumn" ->
         FormatedHandle(impl_cls, c, query, column, value, func)
    [] OTHER -> BaseHandle(impl_cls, c, query, column, value, func, <<>>)

\* the handler QueryTransformer.implement selects for a column
ImplCls(c, column) ==
  LET type_cls ==
        IF column # NoName /\ HasAttr(c, column)
        THEN IF c.attrs[column] = "property" THEN "PropertyQueryColumn"
             ELSE c.attrs[column]
        ELSE "None" IN
  IF type_cls \in DOMAIN QUERY_COLUMNS THEN QUERY_COLUMNS[type_cls]
  ELSE "BaseQueryColumn"

\* QueryTransformer.implement(query, value_tuple)
\* (before: the query implement was given)
implement(c, query, value_tuple) ==
  [Handle(ImplCls(c, value_tuple.column), c, query,
          value_tuple.column, value_tuple.value, value_tuple.func)
     EXCEPT !.before = query]

\* page and per_page handed to query.paginate by paginate_query
PageArg(pg) ==
  IF DictHas(pg, PAGINATION_PAGE) THEN DictVal(pg, PAGINATION_PAGE) ELSE 1
PerPageArg_default_one(pg, count) ==
  IF DictHas(pg, PAGINATION_PER_PAGE) THEN DictVal(pg, PAGINATION_PER_PAGE)
  ELSE 1
PerPageArg(pg, count) ==
  IF DictHas(pg, PAGINATION_PER_PAGE) THEN DictVal(pg, PAGINATION_PER_PAGE)
  ELSE count

\* the rows (by rank in the filtered, ordered query of `total` rows) that
\* query.paginate(page, per_page, False) fetches: limit per_page offset
\* (page - 1) * per_page
PageItems(page, per_page, total) ==
  LET offset == (page - 1) * per_page
      last == IF offset + per_page < total THEN offset + per_page ELSE total
  IN [i \in 1..(IF last > offset THEN last - offset ELSE 0) |-> offset + i]

\* =============================================================== inputs
Key(a) == <<a>>
ArgItems ==
  { <<Key("id"), StrV(<<"999">>)>>,
    <<Key("name"), StrV(<<"acme">>)>>,
    <<Key("created"), StrV(<<"1000">>)>>,
    <<Key("created"), StrV(<<"abc">>)>>,
    <<Key("status"), StrV(<<"active">>)>>,
    <<Key("level"), StrV(<<"7">>)>>,
    <<Key("secret"), StrV(<<"x">>)>>,
    <<<<"name", "__", "icontains">>, StrV(<<"ACME">>)>>,
    <<<<"$", "name", "__", "icontains">>, StrV(<<"ACME">>)>>,
    <<<<"$", "order_by">>, StrV(<<"-", "created">>)>>,
    <<<<"$", "page">>, StrV(<<"2">>)>>,
    <<<<"$", "page">>, StrV(<<"abc">>)>>,
    <<<<"$", "per_page">>, StrV(<<"1">>)>> }

\* the mappings of up to MaxArgs entries with distinct keys over items
ArgsOver(items) ==
  UNION { { d \in [1..n -> items] :
              \A i, j \in 1..n : i # j => d[i][1] # d[j][1] } : n \in 0..MaxArgs }

\* request.args.to_dict(): up to MaxArgs entries with distinct keys
RequestArgs == ArgsOver(ArgItems)

\* the keyword overrides a view passes to construct_query / extend_query
KwargsChoices ==
  { <<>>,
    << <<Key("id"), IntV(7)>> >>,
    << <<<<"$", "per_page">>, NoneV>> >>,
    << <<<<"$", "order_by">>, StrV(<<"name">>)>> >> }

\* requests that exercise the operators and the column handlers
DispatchArgItems ==
  { <<Key("name"), StrV(<<"acme">>)>>,
    <<Key("status"), StrV(<<"active">>)>>,
    <<Key("status"), StrV(<<"bogus">>)>>,
    <<<<"$", "id", "__", "icontains">>, StrV(<<"ACME">>)>>,
    <<<<"$", "active", "__", "icontains">>, StrV(<<"ACME">>)>>,
    <<<<"$", "level", "__", "icontains">>, StrV(<<"ACME">>)>>,
    <<<<"$", "payload", "__", "icontains">>, StrV(<<"ACME">>)>>,
    <<<<"$", "label", "__", "exclude">>, StrV(<<"1">>)>>,
    <<<<"$", "id", "__", "inside">>, StrV(<<"[", "1", ",", "2", "]">>)>>,
    <<<<"$", "id", "__", "inside">>, StrV(<<"{", "bad">>)>>,
    <<<<"$", "name", "__", "not_inside">>, StrV(<<"[", "1", ",", "2", "]">>)>>,
    <<<<"$", "name", "__", "not_inside">>, StrV(<<"{", "bad">>)>>,
    <<<<"$", "status", "__", "inside">>, StrV(<<"[", "1", ",", "2", "]">>)>>,
    <<<<"$", "name", "__", "gt", "__", "x">>, StrV(<<"acme">>)>>,
    <<<<"$", "order_by">>, StrV(<<"name", ",", "-", "id">>)>>,
    <<<<"$", "order_by">>, StrV(<<"secret">>)>>,
    <<Key("active"), StrV(<<"True">>)>>,
    <<<<"$", "name", "__", "bogus">>, StrV(<<"acme">>)>>,
    <<<<"$", "name", "__", "raise_error">>, StrV(<<"acme">>)>> }

DispatchRequestArgs == ArgsOver(DispatchArgItems)

DispatchKwargsChoices ==
  { <<>>,
    << <<Key("status"), IntV(7)>> >> }

\* the requests a workload sends: "query" exercises ownership, ordering and
\* pagination, "dispatch" the operators and the column handlers
RequestsOf(w) == IF w = "query" THEN RequestArgs ELSE DispatchRequestArgs
KwargsOf(w) == IF w = "query" THEN KwargsChoices ELSE DispatchKwargsChoices
CallersOf(w) == IF w = "query" THEN Users ELSE {u \in Users : u.is_admin}

\* ================================================================ state
VARIABLES
  workload,      \* the kind of requests the callers send
  pc,            \* where the request is: idle, pop, prep, impl, paginate,
                 \* done, raised
  cls,           \* the entity class of the query
  current_user,  \* the caller
  request_args,  \* request.args as received
  kwargs,        \* the keyword overrides of the call
  enforce_owner, \* the enforce_owner argument
  query_args,    \* the argument dict handed to transform (mutated by pop)
  paginate,      \* the dict pop_pagination_kwargs returns
  impl_data,     \* the deque prep_for_impl returns
  pos,           \* index in impl_data of the next tuple create_query handles
  query,         \* the query built so far
  last,          \* the outcome of the latest implement call
  storage,       \* the calls made on the storage so far, in order
  result,        \* the Pagination object returned
  error,         \* the exception that left transform, and the step it left
  response,      \* the ApiResponse object and the flask response made of it
  redis,         \* the rate-limit counter key in Redis
  rl,            \* per concurrent request: its position in over_limit
  window,        \* what happened since the counter key last expired
  device,        \* the TOTPDevice row: last_t and drift
  clock,         \* time.time(), in time steps
  attempt,       \* the latest verify_token call and what it returned
  accepted       \* the (token, time step) pairs verify_token has accepted

query_vars == <<pc, cls, current_user, request_args, kwargs, enforce_owner,
                query_args, paginate, impl_data, pos, query, last, storage,
                result, error>>
response_vars == <<response>>
limiter_vars == <<redis, rl, window>>
device_vars == <<device, clock, attempt, accepted>>
\* the state of the collaborators of the query engine
collaborators == <<response_vars, limiter_vars, device_vars>>

vars == <<workload, query_vars, collaborators>>

\* ================================================= architect/responses.py
\* the data a view returns.  An item is a row (api: it has api_response) or
\* a plain value; formatted marks the dict api_response() returns for it.
Item(id, api) == [id |-> id, api |-> api, formatted |-> FALSE]
Data(kind, items) ==
  [kind |-> kind, items |-> items, page |-> 0, pages |-> 0, per_page |-> 0,
   total |-> 0, prev_num |-> NoneV, next_num |-> NoneV]

\* the Pagination object query.paginate(page, per_page, False) returns for
\* a query of `total` rows.  none_at_end: the installed Flask-SQLAlchemy
\* (>= 2.1.0 is required) answers None for prev_num / next_num when there
\* is no such page (2.2 and later) instead of page - 1 / page + 1 (2.1).
PaginationOf(page, per_page, total, none_at_end) ==
  LET pages == (total + per_page - 1) \div per_page
      rows == PageItems(page, per_page, total) IN
  [kind |-> "Pagination",
   items |-> [i \in 1..Len(rows) |-> Item(rows[i], TRUE)],
   page |-> page, pages |-> pages, per_page |-> per_page, total |-> total,
   prev_num |-> IF none_at_end /\ page <= 1 THEN NoneV ELSE IntV(page - 1),
   next_num |-> IF none_at_end /\ page >= pages THEN NoneV
                ELSE IntV(page + 1)]

\* `not results`
Falsy(data) ==
  \/ data.kind = "None"
  \/ data.kind \in {"str", "list", "dict"} /\ data.items = <<>>

\* format_list_results(results)
format_list_results(items) ==
  [i \in 1..Len(items) |->
     IF items[i].api THEN [items[i] EXCEPT !.formatted = TRUE] ELSE items[i]]

\* get_pagination_params(results): the dict, or the exception of comparing
\* a None next_num with pages
get_pagination_params(results) ==
  LET prev == IF results.prev_num.t = "none" \/ results.prev_num.n = 0
              THEN 1 ELSE results.prev_num.n IN
  IF results.next_num.t = "none"
  THEN [exc |-> "TypeError", pagination |-> <<>>]
  ELSE [exc |-> "none",
        pagination |->
          << <<"first", 1>>, <<"last", results.pages>>,
             <<"total", results.total>>, <<"prev", prev>>,
             <<"next", IF results.next_num.n > results.pages
                       THEN results.next_num.n - 1 ELSE results.next_num.n>>,
             <<"per_page", results.per_page>> >>]

\* construct_results(results), with format_pagination_results
construct_results(data) ==
  CASE Falsy(data) \/ data.kind = "dict" ->
         [exc |-> "none", results |-> data, pagination |-> <<>>]
    [] data.kind = "Pagination" ->
         LET r == get_pagination_params(data) IN
         [exc |-> r.exc, pagination |-> r.pagination,
          results |-> IF r.exc = "none"
                      THEN Data("list", format_list_results(data.items))
                      ELSE data]
    [] data.kind = "list" ->
         [exc |-> "none", pagination |-> <<>>,
          results |-> Data("list", format_list_results(data.items))]
    [] data.kind = "object" /\ data.items[1].api ->
         [exc |-> "none", pagination |-> <<>>,
          results |-> Data("dict", format_list_results(data.items))]
    [] OTHER -> [exc |-> "none", results |-> data, pagination |-> <<>>]

\* the condition of __init__ under which every error status of an
\* administrator is logged
LogsWarning_any_error(user, status_code) ==
  user.has_is_admin /\ user.is_admin /\ status_code \div 100 # 2

\* __init__: getattr(current_user, 'is_admin', False) and
\* self.status_code // 100 == 4
LogsWarning(user, status_code) ==
  user.has_is_admin /\ user.is_admin /\ status_code \div 100 = 4

\* re.sub('\$p=\d*', '$p=v', full_path): the argument p of the path, if it
\* has one, gets the value v
Sub(p, v, full_path) ==
  IF DictHas(full_path, p) THEN DictSet(full_path, p, v) ELSE full_path

\* the path of one link: the inner loop substitutes page and then per_page,
\* each time in full_path, so the path of the last turn is the one kept
LinkPath(val, per_page, full_path) ==
  LET turns == << <<PAGINATION_PAGE, val>>,
                  <<PAGINATION_PER_PAGE, per_page>> >>
      paths == [i \in 1..Len(turns) |->
                  Sub(turns[i][1], turns[i][2], full_path)] IN
  paths[Len(paths)]

\* make_pagination_headers(): the headers, and self.pagination after the pops
make_pagination_headers(pg, full_path) ==
  IF pg = <<>> THEN [headers |-> <<>>, pagination |-> pg]
  ELSE LET per_page == DictVal(pg, PAGINATION_PER_PAGE)
           rest == DictPop(DictPop(pg, "total"), PAGINATION_PER_PAGE)
           links == [i \in 1..Len(rest) |->
                       [rel |-> rest[i][1],
                        path |-> LinkPath(rest[i][2], per_page, full_path)]]
       IN [headers |-> << <<"Link", links>> >>, pagination |-> rest]

\* make_headers(): headers.update(self.extra_headers)
make_headers(pg, extra_headers, full_path) ==
  LET r == make_pagination_headers(pg, full_path) IN
  [headers |-> DictUpdate(r.headers, extra_headers),
   pagination |-> r.pagination]

\* the users flask_login hands out: an administrator, a plain user, and an
\* anonymous user without the attribute is_admin
ResponseUsers ==
  { [has_is_admin |-> TRUE, is_admin |-> TRUE],
    [has_is_admin |-> TRUE, is_admin |-> FALSE],
    [has_is_admin |-> FALSE, is_admin |-> FALSE] }

StatusCodes == {200, 201, 302, 400, 404, 500}

\* the pages and page sizes the Pagination objects are made for
Pages == 1..2
PageSizes == 1..2

DataChoices ==
  { Data("None", <<>>), Data("str", <<>>), Data("dict", <<Item(1, FALSE)>>),
    Data("list", <<Item(2, TRUE), Item(1, FALSE)>>),
    Data("object", <<Item(1, TRUE)>>),
    Data("object", <<Item(1, FALSE)>>) }
    \cup { PaginationOf(pg, pp, total, none_at_end) :
             pg \in Pages, pp \in PageSizes, total \in 0..MaxRows,
             none_at_end \in BOOLEAN }

\* the headers format_api_response passes (the rate limiter's) or none
ExtraHeaders ==
  { <<>>, << <<"X-RateLimit-Limit", <<>>>>, <<"X-RateLimit-Remaining", <<>>>>,
             <<"X-RateLimit-Reset", <<>>>> >> }

\* request.full_path without and with the pagination arguments
FullPaths ==
  { <<>>, << <<PAGINATION_PAGE, 1>>, <<PAGINATION_PER_PAGE, 2>> >> }

NoResponse ==
  [stage |-> "none", data |-> Data("None", <<>>), status_code |-> 200,
   user |-> CHOOSE u \in ResponseUsers : ~u.has_is_admin,
   results |-> Data("None", <<>>), pagination |-> <<>>,
   extra_headers |-> <<>>, warnings |-> <<>>, body |-> Data("None", <<>>),
   headers |-> <<>>, exc |-> "none"]

ResponseIdle == response = NoResponse

\* ===================================================== auth/rate_limit.py
\* the requests that share one rate-limit token and run concurrently
Requests == 1..MaxClients

\* current_app.config: the limit of the token and whether limiting is on
RequestsPerHour == {1, 2}

\* the counter key of the token: missing, or a value with or without expiry
NoKey == [exists |-> FALSE, value |-> 0, expires |-> FALSE]

\* redis.setex(key, 1, RATE_LIMIT_EXPIRATION): the key holds 1 and expires
\* (the argument order of the Redis class of redis-py 2.x, which helpers.py
\* subclasses); the reply is True
Setex(r) ==
  [redis |-> [exists |-> TRUE, value |-> 1, expires |-> TRUE], reply |-> 1]

\* redis.incr(key): a missing key is created with the value 1 and no
\* expiry; an existing key keeps its expiry; the reply is the new value
Incr(r) ==
  IF r.exists
  THEN [redis |-> [r EXCEPT !.value = @ + 1], reply |-> r.value + 1]
  ELSE [redis |-> [exists |-> TRUE, value |-> 1, expires |-> FALSE],
        reply |-> 1]

\* over_limit after the exists check: incr if the key was seen, setex if not
Write(found, r) == IF found THEN Incr(r) ELSE Setex(r)

\* over_limit: the answer for the reply of the write
Answer(enabled, requests, limit) == enabled /\ requests > limit

\* a window in which nothing has happened yet, under a configuration
NoWindow(limit, enabled) ==
  [limit |-> limit, enabled |-> enabled, started |-> 0, calls |-> 0,
   allowed |-> 0, bypassed |-> 0]

NoRequest == [pc |-> "idle", found |-> FALSE]

LimiterIdle ==
  /\ redis = NoKey
  /\ rl = [p \in Requests |-> NoRequest]
  /\ window = NoWindow(1, TRUE)

\* ============================================== auth/two_factor/models.py
\* hotp(key, counter, digits): the token of a counter under the device's
\* key, a fixed function of the counter into the decimal tokens of `digits`
\* digits (one digit here)
hotp(counter) == ((counter * 7) + 3) % 10
Tokens == 0..9

\* TOTPDevice.tolerance (defaults)
tolerance == 1

\* TOTP.t() for the clock and a drift, in time steps
T(now, drift) == now + drift

\* TOTPDevice.valid_token: the token of the current time step, drift 0
valid_token(now) == hotp(T(now, 0))

\* verify_token_with_offset(token): the loop from offset on; the device as
\* it is left and the value returned
RECURSIVE OffsetLoop(_, _, _, _)
OffsetLoop(offset, dev, now, token) ==
  IF offset > tolerance THEN [device |-> dev, ok |-> FALSE]
  ELSE LET t == T(now, dev.drift + offset) IN
       IF t > dev.last_t /\ hotp(t) = token
       THEN [device |-> [last_t |-> t, drift |-> dev.drift + offset],
             ok |-> TRUE]
       ELSE OffsetLoop(offset + 1, dev, now, token)

verify_token_with_offset(dev, now, token) ==
  OffsetLoop(-tolerance, dev, now, token)

\* TOTPDevice.verify_token(token)
verify_token(dev, now, token) ==
  IF token = valid_token(now) THEN [device |-> dev, ok |-> TRUE]
  ELSE verify_token_with_offset(dev, now, token)

NoAttempt == [token |-> 0, time |-> 0, ok |-> FALSE, again |-> FALSE]

\* a device whose last_t is behind the clock
DeviceIdle ==
  /\ device = [last_t |-> -1, drift |-> 0]
  /\ clock = 0
  /\ attempt = NoAttempt
  /\ accepted = {}

CollaboratorsIdle == ResponseIdle /\ LimiterIdle /\ DeviceIdle

\* ------------------------------------------------ the query engine, idle
NoOutcome == [err |-> NoError, query |-> EmptyQuery(FALSE),
              applied |-> FALSE, log |-> <<>>, before |-> EmptyQuery(FALSE)]
NoResult == [page |-> 0, per_page |-> 0, total |-> 0, items |-> <<>>]
NoFailure == [step |-> "", err |-> NoError]

Idle ==
  /\ pc = "idle"
  /\ cls = Account
  /\ current_user = CHOOSE u \in Users : u.is_admin
  /\ request_args = <<>>
  /\ kwargs = <<>>
  /\ enforce_owner = TRUE
  /\ query_args = <<>>
  /\ paginate = <<>>
  /\ impl_data = <<>>
  /\ pos = 1
  /\ query = EmptyQuery(FALSE)
  /\ last = NoOutcome
  /\ storage = <<>>
  /\ result = NoResult
  /\ error = NoFailure

Init == workload = "query" /\ Idle /\ CollaboratorsIdle
InitDispatch == workload = "dispatch" /\ Idle /\ CollaboratorsIdle

\* the state a call starts from, for every input it can be given
Begin(c, u, args, kw, enforce, initial_query) ==
  /\ pc' = "pop"
  /\ cls' = c
  /\ current_user' = u
  /\ request_args' = args
  /\ kwargs' = kw
  /\ enforce_owner' = enforce
  /\ query_args' = get_query_args_for_cls(c, u, args, enforce, kw)
  /\ query' = initial_query
  /\ UNCHANGED <<collaborators, workload, paginate, impl_data, pos, last, storage, result,
                 error>>

\* construct_query(cls, enforce_owner, **kwargs)
ConstructQuery ==
  /\ pc = "idle"
  /\ \E c \in Classes, u \in CallersOf(workload),
        args \in RequestsOf(workload), kw \in KwargsOf(workload),
        enforce \in BOOLEAN :
       Begin(c, u, args, kw, enforce, EmptyQuery(FALSE))

\* extend_query(query, enforce_owner, **kwargs), on a joined query
ExtendQuery ==
  /\ pc = "idle"
  /\ \E c \in Classes, u \in CallersOf(workload),
        args \in RequestsOf(workload), kw \in KwargsOf(workload),
        enforce \in BOOLEAN :
       Begin(c, u, args, kw, enforce, EmptyQuery(TRUE))

\* transform: paginate = self.pop_pagination_kwargs(query_args)
PopPaginationKwargs ==
  /\ pc = "pop"
  /\ LET st == pop_pagination_kwargs(query_args) IN
       /\ query_args' = st.kwargs
       /\ IF st.exc = "none"
          THEN /\ paginate' = st.paginate
               /\ pc' = "prep"
               /\ error' = error
          ELSE /\ paginate' = paginate
               /\ pc' = "raised"
               /\ error' = [step |-> "pop", err |-> Raise(st.exc)]
  /\ UNCHANGED <<collaborators, workload, cls, current_user, request_args, kwargs, enforce_owner,
                 impl_data, pos, query, last, storage, result>>

\* a loop that returns the query after its first turn
LoopStep_return_in_loop(done, queue) ==
  IF done < 1 /\ Len(queue) > 0 THEN "impl" ELSE "paginate"

\* create_query's for loop over impl_data: after `done` tuples were handled,
\* the next tuple is implemented, or the loop ends and the query is returned
LoopStep(done, queue) == IF done < Len(queue) THEN "impl" ELSE "paginate"

\* create_query: impl_data = self.prep_for_impl(kwargs)
PrepForImpl ==
  /\ pc = "prep"
  /\ LET r == prep_for_impl(cls, query_args) IN
       IF r.exc = "none"
       THEN /\ impl_data' = r.impl_data
            /\ pc' = LoopStep(0, r.impl_data)
            /\ error' = error
       ELSE /\ impl_data' = impl_data
            /\ pc' = "raised"
            /\ error' = [step |-> "prep", err |-> Raise(r.exc)]
  /\ UNCHANGED <<collaborators, workload, cls, current_user, request_args, kwargs, enforce_owner,
                 query_args, paginate, pos, query, last, storage, result>>

\* create_query: query = self.implement(query, value_tuple), one tuple
Implement ==
  /\ pc = "impl"
  /\ pos <= Len(impl_data)
  /\ LET r == implement(cls, query, impl_data[pos]) IN
       /\ last' = r
       /\ IF r.err.exc = "none"
          THEN /\ query' = r.query
               /\ pos' = pos + 1
               /\ pc' = LoopStep(pos, impl_data)
               /\ error' = error
          ELSE /\ query' = query
               /\ pos' = pos
               /\ pc' = "raised"
               /\ error' = [step |-> "impl", err |-> r.err]
  /\ UNCHANGED <<collaborators, workload, cls, current_user, request_args, kwargs, enforce_owner,
                 query_args, paginate, impl_data, storage, result>>

\* the exceptions the storage may raise from count() or paginate()
StorageErrors == {"OperationalError", "DataError"}

\* the calls paginate_query makes on the storage
CountCall(n) == [op |-> "count", page |-> 0, per_page |-> 0, ret |-> n]
PaginateCall(page, per_page, n) ==
  [op |-> "paginate", page |-> page, per_page |-> per_page, ret |-> n]

\* paginate_query(query, paginate); the storage reports `count` rows, or
\* raises exc from the call named by failing
paginate_query(pg, count, failing, exc) ==
  LET translated ==
        IF exc = "OperationalError"
        THEN InvalidFormError("query_construction", <<"Invalid Value">>)
        ELSE Raise(exc)
      page == PageArg(pg)
      per_page == PerPageArg(pg, count)
      items == PageItems(page, per_page, count) IN
  CASE failing = "count" ->
         [calls |-> <<CountCall(0)>>, err |-> translated, result |-> NoResult]
    [] failing = "paginate" ->
         [calls |-> <<CountCall(count), PaginateCall(page, per_page, 0)>>,
          err |-> translated, result |-> NoResult]
    [] OTHER ->
         [calls |-> <<CountCall(count),
                      PaginateCall(page, per_page, Len(items))>>,
          err |-> NoError,
          result |-> [page |-> page, per_page |-> per_page,
                      total |-> count, items |-> items]]

\* transform: return self.paginate_query(query, paginate)
PaginateQuery ==
  /\ pc = "paginate"
  /\ \E count \in 0..MaxRows, failing \in {"none", "count", "paginate"},
        exc \in StorageErrors :
       LET r == paginate_query(paginate, count, failing, exc) IN
         /\ storage' = storage \o r.calls
         /\ result' = r.result
         /\ IF r.err.exc = "none"
            THEN pc' = "done" /\ error' = error
            ELSE pc' = "raised" /\ error' = [step |-> "paginate", err |-> r.err]
  /\ UNCHANGED <<collaborators, workload, cls, current_user, request_args, kwargs, enforce_owner,
                 query_args, paginate, impl_data, pos, query, last>>

\* the call has returned or raised; the next request starts afresh
Return ==
  /\ pc \in {"done", "raised"}
  /\ pc' = "idle"
  /\ UNCHANGED <<collaborators, workload>>
  /\ cls' = Account
  /\ current_user' = CHOOSE u \in Users : u.is_admin
  /\ request_args' = <<>>
  /\ kwargs' = <<>>
  /\ enforce_owner' = TRUE
  /\ query_args' = <<>>
  /\ paginate' = <<>>
  /\ impl_data' = <<>>
  /\ pos' = 1
  /\ query' = EmptyQuery(FALSE)
  /\ last' = NoOutcome
  /\ storage' = <<>>
  /\ result' = NoResult
  /\ error' = NoFailure

Next ==
  \/ ConstructQuery
  \/ ExtendQuery
  \/ PopPaginationKwargs
  \/ PrepForImpl
  \/ Implement
  \/ PaginateQuery
  \/ Return

Spec == Init /\ [][Next]_vars
SpecDispatch == InitDispatch /\ [][Next]_vars

\* ------------------------------------------------ ApiResponse (responses.py)
\* ApiResponse(data, status_code, headers) for the current user
ApiResponseInit ==
  /\ response.stage = "none"
  /\ \E data \in DataChoices, status_code \in StatusCodes,
        user \in ResponseUsers, headers \in ExtraHeaders :
       LET r == IF status_code \div 100 = 2 THEN construct_results(data)
                ELSE [exc |-> "none", results |-> data, pagination |-> <<>>]
           logs == status_code \div 100 # 2 /\ LogsWarning(user, status_code)
       IN response' =
            [response EXCEPT
               !.stage = IF r.exc = "none" THEN "built" ELSE "raised",
               !.data = data, !.status_code = status_code, !.user = user,
               !.results = r.results, !.pagination = r.pagination,
               !.extra_headers = IF r.exc = "none" THEN headers ELSE <<>>,
               !.warnings = IF logs THEN Append(@, data) ELSE @,
               !.exc = r.exc]
  /\ UNCHANGED <<workload, query_vars, limiter_vars, device_vars>>

\* ApiResponse.response: make_response(self.results), self.status_code
ResponseProperty ==
  /\ response.stage = "built"
  /\ \E full_path \in FullPaths :
       LET h == make_headers(response.pagination, response.extra_headers,
                             full_path) IN
       response' = [response EXCEPT !.stage = "sent",
                                    !.body = response.results,
                                    !.headers = h.headers,
                                    !.pagination = h.pagination]
  /\ UNCHANGED <<workload, query_vars, limiter_vars, device_vars>>

\* the response has left (or the constructor has raised); the next view
\* returns
ResponseDone ==
  /\ response.stage \in {"sent", "raised"}
  /\ response' = NoResponse
  /\ UNCHANGED <<workload, query_vars, limiter_vars, device_vars>>

NextResponse ==
  \/ ApiResponseInit
  \/ ResponseProperty
  \/ ResponseDone

InitResponse == workload = "response" /\ Idle /\ CollaboratorsIdle
SpecResponse == InitResponse /\ [][NextResponse]_vars

\* ------------------------------------------- RateLimiter (rate_limit.py)
\* is_rate_limited for a whitelisted address: over_limit is not called
Whitelisted(p) ==
  /\ rl[p].pc = "idle"
  /\ window.bypassed < MaxCalls
  /\ window' = [window EXCEPT !.bypassed = @ + 1]
  /\ UNCHANGED <<redis, rl>>
  /\ UNCHANGED <<workload, query_vars, response_vars, device_vars>>

\* over_limit: if self.redis.exists(key)
Exists(p) ==
  /\ rl[p].pc = "idle"
  /\ window.started < MaxCalls
  /\ rl' = [rl EXCEPT ![p] = [pc |-> "write", found |-> redis.exists]]
  /\ window' = [window EXCEPT !.started = @ + 1]
  /\ UNCHANGED redis
  /\ UNCHANGED <<workload, query_vars, response_vars, device_vars>>

\* over_limit: the incr or the setex, and the answer
OverLimit(p) ==
  /\ rl[p].pc = "write"
  /\ LET w == Write(rl[p].found, redis)
         limited == Answer(window.enabled, w.reply, window.limit) IN
       /\ redis' = w.redis
       /\ window' = [window EXCEPT
                       !.calls = @ + 1,
                       !.allowed = IF limited THEN @ ELSE @ + 1]
  /\ rl' = [rl EXCEPT ![p] = NoRequest]
  /\ UNCHANGED <<workload, query_vars, response_vars, device_vars>>

\* Redis drops the key when its expiry has passed; a new window begins
Expire ==
  /\ redis.exists
  /\ redis.expires
  /\ redis' = NoKey
  /\ window' = NoWindow(window.limit, window.enabled)
  /\ UNCHANGED rl
  /\ UNCHANGED <<workload, query_vars, response_vars, device_vars>>

NextLimiter ==
  \/ \E p \in Requests : Whitelisted(p)
  \/ \E p \in Requests : Exists(p)
  \/ \E p \in Requests : OverLimit(p)
  \/ Expire

\* the limiter under every configuration of the limit and of RATE_LIMITING
InitLimiter ==
  /\ workload = "limiter"
  /\ Idle
  /\ ResponseIdle
  /\ DeviceIdle
  /\ redis = NoKey
  /\ rl = [p \in Requests |-> NoRequest]
  /\ \E limit \in RequestsPerHour, enabled \in BOOLEAN :
       window = NoWindow(limit, enabled)
SpecLimiter == InitLimiter /\ [][NextLimiter]_vars

\* ---------------------------------------------- TOTPDevice (models.py)
\* time.time() moves on to the next time step
Tick ==
  /\ clock < MaxTime
  /\ clock' = clock + 1
  /\ UNCHANGED <<device, attempt, accepted>>
  /\ UNCHANGED <<workload, query_vars, response_vars, limiter_vars>>

\* device.verify_token(token)
VerifyToken ==
  /\ \E token \in Tokens :
       LET r == verify_token(device, clock, token) IN
         /\ r.device.drift \in (0 - MaxDrift)..MaxDrift
         /\ device' = r.device
         /\ attempt' = [token |-> token, time |-> clock, ok |-> r.ok,
                        again |-> <<token, clock>> \in accepted]
         /\ accepted' = IF r.ok THEN accepted \cup {<<token, clock>>}
                        ELSE accepted
  /\ UNCHANGED clock
  /\ UNCHANGED <<workload, query_vars, response_vars, limiter_vars>>

NextDevice ==
  \/ Tick
  \/ VerifyToken

\* a device whose last_t is behind the clock (set when it was created), or
\* the default of the class, a timestamp in seconds that no time step
\* reaches
InitDevice ==
  /\ workload = "device"
  /\ Idle
  /\ ResponseIdle
  /\ LimiterIdle
  /\ device \in { [last_t |-> -1, drift |-> 0],
                  [last_t |-> MaxTime + MaxDrift + 2, drift |-> 0] }
  /\ clock = 0
  /\ attempt = NoAttempt
  /\ accepted = {}
SpecDevice == InitDevice /\ [][NextDevice]_vars

\* ================================================================ claims
\* the argument mapping construct_query / extend_query hand to transform
TransformArgs ==
  get_query_args_for_cls(cls, current_user, request_args, enforce_owner,
                         kwargs)

\* prep_for_impl has returned its deque
Built ==
  \/ pc \in {"impl", "paginate", "done"}
  \/ pc = "raised" /\ error.step \in {"impl", "paginate"}

\* the tuples create_query has handed to implement so far, the raising one
\* included
Dispatched ==
  IF ~Built THEN <<>>
  ELSE SubSeq(impl_data, 1,
              IF pc = "raised" /\ error.step = "impl" THEN pos ELSE pos - 1)

\* the values the request or the keyword overrides carry for key k
Supplied(k) ==
  {DictVal(d, k) : d \in {d \in {request_args, kwargs} : DictHas(d, k)}}

\* the plain-equality tuples of the queue on column k
EqualityTuples(k) ==
  {i \in 1..Len(impl_data) :
     impl_data[i].column = k /\ impl_data[i].func = NoName}

\* the equality filters of the query on column k
EqualityFilters(k) ==
  {i \in 1..Len(query.filters) :
     query.filters[i].column = k /\ query.filters[i].op = "eq"}

OwnerEnforced ==
  /\ pc # "idle"
  /\ enforce_owner
  /\ ~current_user.is_admin
  /\ HasAttr(cls, ACTIVE_TOKENS_ATTR)

\* the queue and the query are scoped to owner value v
ScopedTo(v) ==
  /\ DictHas(query_args, ACTIVE_TOKENS_ATTR)
  /\ DictVal(query_args, ACTIVE_TOKENS_ATTR) = v
  /\ Built =>
       /\ EqualityTuples(ACTIVE_TOKENS_ATTR) # {}
       /\ \A i \in EqualityTuples(ACTIVE_TOKENS_ATTR) : impl_data[i].value = v
  /\ storage # <<>> =>
       /\ EqualityFilters(ACTIVE_TOKENS_ATTR) # {}
       /\ \A i \in EqualityFilters(ACTIVE_TOKENS_ATTR) :
            query.filters[i].value = v

Entries(method) ==
  {a \in 1..Len(query_args) :
     PrepItem(cls, query_args[a][1], query_args[a][2]).method = method}
TupleOf(a) == PrepItem(cls, query_args[a][1], query_args[a][2]).tuple
Positions(t) == {i \in 1..Len(impl_data) : impl_data[i] = t}
\* the tuple of entry a sits in the queue, and before that of entry b
Before(a, b) ==
  /\ Positions(TupleOf(a)) # {} /\ Positions(TupleOf(b)) # {}
  /\ \A p \in Positions(TupleOf(a)), q \in Positions(TupleOf(b)) : p < q

\* C2: in the queue prep_for_impl builds, every plain-equality instruction
\* comes strictly before every special instruction, whatever the order of
\* the keys in the mapping.
C2_PlainBeforeSpecial ==
  Built =>
    /\ Len(impl_data) = Len(query_args)
    /\ \A a \in Entries("appendleft"), b \in Entries("append") : Before(a, b)

\* a special key was iterated before a plain one
C2_Witness ==
  /\ Built
  /\ \E a \in Entries("appendleft"), b \in Entries("append") : b < a

\* C3 (as stated): two keys of the same shape keep their input order in the
\* queue.
C3_SameShapeKeepsOrder ==
  Built =>
    \A m \in {"appendleft", "append"} :
      \A a, b \in Entries(m) : a < b => Before(a, b)

\* C3 (amended): two special keys keep their input order in the queue; two
\* plain-equality keys appear in the reverse of their input order.
C3_SpecialsKeepPlainsReverse ==
  Built =>
    /\ \A a, b \in Entries("append") : a < b => Before(a, b)
    /\ \A a, b \in Entries("appendleft") : a < b => Before(b, a)

\* two plain keys and two specials were iterated
C3_Witness ==
  /\ Built
  /\ \E a, b \in Entries("appendleft") : a < b
  /\ \E a, b \in Entries("append") : a < b

\* C4: dispatching a tuple whose column is not exposed (function other than
\* exclude) raises the field-exposure error naming the column, and nothing
\* but the exposure check ran: no value conversion, no operator.
C4_UnexposedRaisesBeforeAnything ==
  Dispatched # <<>> =>
    LET t == Dispatched[Len(Dispatched)] IN
    (t.column # NoName /\ t.column \notin cls.exposed_fields
       /\ t.func # <<"exclude">>) =>
      /\ last.err = InvalidFormError("fields", t.column)
      /\ last.log = <<"check_exposed_column">>

\* C5: count and paginate are called only once every tuple of the queue was
\* dispatched without raising; a call that raised in pop_pagination_kwargs,
\* prep_for_impl or implement never reached the storage.
C5_StorageOnlyAfterFullDispatch ==
  /\ storage # <<>> =>
       /\ Built
       /\ pos = Len(impl_data) + 1
       /\ error.step \notin {"pop", "prep", "impl"}
  /\ (pc = "raised" /\ error.step \in {"pop", "prep", "impl"}) =>
       storage = <<>>

\* a queue of two or more tuples was dispatched and then paginated
C5_Witness ==
  /\ pc = "done"
  /\ Len(impl_data) >= 2
  /\ storage # <<>>

HasDirective(d, name) == DictHas(d, <<"$", name>>)
Directive(d, name) == DictVal(d, <<"$", name>>)
PaginateCalls == {i \in 1..Len(storage) : storage[i].op = "paginate"}

\* C6: with at most one of the page and per_page directives in the
\* arguments, paginate is called with page 1; per_page given without page is
\* passed on as the integer it denotes.
C6_PageDefaultsToOne ==
  \A i \in PaginateCalls :
    /\ ~(HasDirective(TransformArgs, PAGINATION_PAGE)
           /\ HasDirective(TransformArgs, PAGINATION_PER_PAGE)) =>
         storage[i].page = 1
    /\ (HasDirective(TransformArgs, PAGINATION_PER_PAGE)
          /\ ~HasDirective(TransformArgs, PAGINATION_PAGE)
          /\ PyInt(Directive(TransformArgs, PAGINATION_PER_PAGE)).exc = "none")
         => storage[i].per_page =
              PyInt(Directive(TransformArgs, PAGINATION_PER_PAGE)).n

\* page "2" was given alone and the page fetched is page 1
C6_Witness ==
  /\ pc = "done"
  /\ HasDirective(TransformArgs, PAGINATION_PAGE)
  /\ PyInt(Directive(TransformArgs, PAGINATION_PAGE)).n = 2
  /\ ~HasDirective(TransformArgs, PAGINATION_PER_PAGE)
  /\ result.page = 1

\* C7: without a per_page directive in the arguments, paginate is called
\* with per_page equal to the count the storage just reported, and the page
\* returned holds every row of the filtered query.
C7_PerPageDefaultsToCount ==
  \A i \in PaginateCalls :
    ~HasDirective(TransformArgs, PAGINATION_PER_PAGE) =>
      /\ storage[i - 1].op = "count"
      /\ storage[i].per_page = storage[i - 1].ret
      /\ pc = "done" =>
           /\ result.total = storage[i - 1].ret
           /\ result.items = [k \in 1..result.total |-> k]

\* page "2" without per_page over a query of MaxRows rows: all rows returned
C7_Witness ==
  /\ pc = "done"
  /\ HasDirective(TransformArgs, PAGINATION_PAGE)
  /\ ~HasDirective(TransformArgs, PAGINATION_PER_PAGE)
  /\ result.total = MaxRows
  /\ Len(result.items) = MaxRows

PaginationNames ==
  {<<PAGINATION_PAGE>>, <<PAGINATION_PER_PAGE>>,
   <<"$", PAGINATION_PAGE>>, <<"$", PAGINATION_PER_PAGE>>}

\* C8: the page and per_page directives are gone from the mapping when
\* prep_for_impl reads it; no tuple of the queue, hence none dispatched, has
\* page or per_page as its column or function.
C8_PaginationKeysPopped ==
  /\ (pc = "prep" \/ Built \/ (pc = "raised" /\ error.step = "prep")) =>
       /\ ~HasDirective(query_args, PAGINATION_PAGE)
       /\ ~HasDirective(query_args, PAGINATION_PER_PAGE)
  /\ \A i \in 1..Len(impl_data) :
       /\ impl_data[i].func \notin PaginationNames
       /\ impl_data[i].column \notin PaginationNames

\* both directives came with other keys, and the queue was dispatched
C8_Witness ==
  /\ pc = "done"
  /\ HasDirective(TransformArgs, PAGINATION_PAGE)
  /\ HasDirective(TransformArgs, PAGINATION_PER_PAGE)
  /\ Len(Dispatched) >= 2

\* C9: a page or per_page directive whose value is not an integer never
\* makes pop_pagination_kwargs, hence transform, raise.
C9_NonIntegerDirectiveIgnored ==
  (/\ pc # "idle"
   /\ \E name \in {PAGINATION_PAGE, PAGINATION_PER_PAGE} :
        /\ HasDirective(TransformArgs, name)
        /\ PyInt(Directive(TransformArgs, name)).exc # "none")
    => ~(pc = "raised" /\ error.step = "pop")

\* C10: a key column__function without `$` yields the tuple
\* (column, value, function), pushed to the back as a special.
C10_ColumnFunctionKeyParsed ==
  Built =>
    \A a \in 1..Len(query_args) :
      LET k == query_args[a][1] IN
      (k # <<>> /\ Head(k) # "$" /\ Len(Split(k)) = 2) =>
        /\ a \in Entries("append")
        /\ \E i \in 1..Len(impl_data) :
             impl_data[i] = [column |-> Split(k)[1],
                             value |-> query_args[a][2],
                             func |-> Split(k)[2]]

\* ------------------------------------------------ dispatch (SpecDispatch)
\* an implement call was made; LastTuple is the tuple it was given
Called == Dispatched # <<>>
LastTuple == Dispatched[Len(Dispatched)]
LastHandler == ImplCls(cls, LastTuple.column)
LastExposed ==
  LastTuple.column # NoName /\ LastTuple.column \in cls.exposed_fields
\* the call raised and left the query as it was, before any operator ran
RejectedWith(e) ==
  /\ pc = "raised" /\ error.step = "impl" /\ error.err = e
  /\ last.err = e
  /\ "method" \notin {last.log[i] : i \in 1..Len(last.log)}
  /\ query = last.before
  /\ storage = <<>>

InvalidCall ==
  /\ Called
  /\ LastHandler \in {"IntegerQueryColumn", "BooleanQueryColumn"}
  /\ LastTuple.func = <<"icontains">>

\* C11 (as stated): icontains on an integer or boolean column raises the
\* query-construction error naming icontains; no operator runs and the query
\* is not touched.
C11_InvalidFunctionRejected ==
  InvalidCall =>
    RejectedWith(InvalidFormError("query_construction", <<"icontains">>))

\* C11 (amended): the same on an exposed integer or boolean column; on an
\* unexposed one the exposure check raises the field-exposure error first.
C11_InvalidFunctionRejectedIfExposed ==
  /\ (InvalidCall /\ LastExposed) =>
       RejectedWith(InvalidFormError("query_construction", <<"icontains">>))
  /\ (InvalidCall /\ ~LastExposed) =>
       RejectedWith(InvalidFormError("fields", LastTuple.column))

\* icontains was dispatched on the exposed boolean column and rejected
C11_Witness ==
  /\ InvalidCall
  /\ LastHandler = "BooleanQueryColumn"
  /\ LastExposed
  /\ pc = "raised"
  /\ error.err.category = "query_construction"

\* C12: icontains on an exposed column whose type is not registered goes to
\* the default handler and is rejected with a query-construction error.
C12_DefaultHandlerRejectsContains ==
  (/\ Called
   /\ LastExposed
   /\ HasAttr(cls, LastTuple.column)
   /\ cls.attrs[LastTuple.column] \notin DOMAIN QUERY_COLUMNS
   /\ LastTuple.func = <<"icontains">>)
    => /\ LastHandler = "BaseQueryColumn"
       /\ RejectedWith(InvalidFormError("query_construction", <<"icontains">>))

UnknownLabel ==
  /\ Called
  /\ LastExposed
  /\ LastHandler = "FormatedQueryColumn"
  /\ LastTuple.value.t = "str"
  /\ LastTuple.value.s \notin {<<"active">>, <<"closed">>}

\* C13: on an exposed formatted column a string that is no label of the
\* value map raises the InvalidFormError keyed by the column and listing the
\* valid labels; no operator runs and nothing reaches the storage.
C13_UnknownLabelRejected ==
  UnknownLabel =>
    /\ RejectedWith(InvalidChoiceError(LastTuple.column,
                                       {<<"active">>, <<"closed">>}))
    /\ pc = "raised"

\* status=bogus was dispatched and rejected
C13_Witness ==
  /\ UnknownLabel
  /\ LastTuple.value.s = <<"bogus">>
  /\ LastTuple.func = NoName
  /\ pc = "raised"
  /\ error.err.options # {}

\* C14: exclude on a property that is not an exposed field is accepted: no
\* field-exposure error, and the query comes back with the same filters and
\* ordering.
C14_ExcludeAccepted ==
  (/\ Called
   /\ LastTuple.func = <<"exclude">>
   /\ LastTuple.column # NoName
   /\ HasAttr(cls, LastTuple.column)
   /\ cls.attrs[LastTuple.column] = "property"
   /\ ~LastExposed)
    => /\ last.err.exc = "none"
       /\ last.query = last.before

MembershipCall ==
  /\ Called
  /\ LastExposed
  /\ LastTuple.func \in {<<"inside">>, <<"not_inside">>}
WellFormedArrays == {StrV(<<"[", "1", ",", "2", "]">>)}
MalformedJson == {StrV(<<"{", "bad">>)}
\* what inside / not_inside are expected to do with the last tuple
MembershipEffect ==
  /\ LastTuple.value \in MalformedJson =>
       /\ last.err.exc = "none"
       /\ last.query = last.before
       /\ ~(pc = "raised" /\ error.step = "impl")
  /\ LastTuple.value \in WellFormedArrays =>
       /\ last.err.exc = "none"
       /\ last.query = Filter(last.before, LastTuple.column,
                              LastTuple.func[1], LastTuple.value)

C16_NothingElseDropped ==
  Called =>
    \/ /\ LastTuple.func \in {<<"inside">>, <<"not_inside">>}
       /\ LastTuple.value \in MalformedJson
    \/ last.err.exc = "none" /\ last.applied /\ last.query # last.before
    \/ /\ last.err.exc = "InvalidFormError"
       /\ last.err.category \in {"fields", "query_construction"}

\* C17: whatever the storage raises from count or paginate leaves transform
\* as the query-construction InvalidFormError.
C17_StorageErrorsTranslated ==
  (pc = "raised" /\ error.step = "paginate") =>
    /\ error.err.exc = "InvalidFormError"
    /\ error.err.category = "query_construction"

\* C19: with enforce_owner False or an administrative caller, the mapping
\* handed to transform has the keys of the request and of the overrides,
\* each with the override's value if there is one and the request's
\* otherwise; the ownership column is neither added nor changed.
C19_NoScopeMergesOnly ==
  (pc = "pop" /\ (~enforce_owner \/ current_user.is_admin)) =>
    /\ DictKeys(query_args) = DictKeys(request_args) \cup DictKeys(kwargs)
    /\ Len(query_args) = Cardinality(DictKeys(query_args))
    /\ \A k \in DictKeys(query_args) :
         DictVal(query_args, k) =
           IF DictHas(kwargs, k) THEN DictVal(kwargs, k)
           ELSE DictVal(request_args, k)
    /\ \A i \in 1..Len(request_args) : query_args[i][1] = request_args[i][1]

\* a non-administrative caller with enforce_owner False: request and
\* override collide on id, the override wins and the caller's id is not used
C19_Witness ==
  /\ pc = "pop"
  /\ ~enforce_owner
  /\ ~current_user.is_admin
  /\ UserHasAttr(current_user, ACTIVE_TOKENS_ATTR)
  /\ HasAttr(cls, ACTIVE_TOKENS_ATTR)
  /\ DictHas(request_args, ACTIVE_TOKENS_ATTR)
  /\ DictHas(kwargs, ACTIVE_TOKENS_ATTR)
  /\ DictVal(query_args, ACTIVE_TOKENS_ATTR) = IntV(7)

\* C20: prep_for_impl never raises, whatever the keys; a key is only ever
\* rejected by implement.
C20_ParserNeverRaises ==
  ~(pc = "raised" /\ error.step = "prep")

\* the names of a comma-separated value, in order
RECURSIVE SplitComma(_)
SplitComma(ts) ==
  IF \A i \in 1..Len(ts) : ts[i] # "," THEN <<ts>>
  ELSE LET p == CHOOSE i \in 1..Len(ts) :
                  ts[i] = "," /\ \A j \in 1..(i - 1) : ts[j] # ","
       IN <<SubSeq(ts, 1, p - 1)>> \o SplitComma(SubSeq(ts, p + 1, Len(ts)))

\* the ordering one listed name asks for
Ordering(part) ==
  IF part # <<>> /\ Head(part) = "-"
  THEN [column |-> Tail(part), modifier |-> "desc"]
  ELSE [column |-> part, modifier |-> "asc"]

OrderByCall ==
  /\ Called
  /\ LastTuple.func = <<"order_by">>
  /\ LastTuple.value.t = "str"

\* every listed name is a column of the entity
ValidOrderList ==
  \A i \in 1..Len(SplitComma(LastTuple.value.s)) :
    LET o == Ordering(SplitComma(LastTuple.value.s)[i]) IN
    HasAttr(cls, o.column) /\ cls.attrs[o.column] # "property"

\* C23: order_by with a comma-separated list of valid columns does not raise
\* and adds one ordering per listed column, left to right, ascending for a
\* plain name and descending for a name prefixed with `-`.
C23_OrderByCommaList ==
  (OrderByCall /\ ValidOrderList) =>
    /\ last.err.exc = "none"
    /\ last.query.order =
         last.before.order \o
           [i \in 1..Len(SplitComma(LastTuple.value.s)) |->
              Ordering(SplitComma(LastTuple.value.s)[i])]

\* the filter the latest implement call added
AddedFilter == last.query.filters[Len(last.query.filters)]
FilterAdded ==
  /\ last.err.exc = "none"
  /\ last.applied
  /\ Len(last.query.filters) = Len(last.before.filters) + 1

\* C24: an equality filter on an exposed integer or boolean column with the
\* value "True" or "False" reaches filter_by with the boolean, not the string.
C24_TrueFalseCoerced ==
  (/\ Called
   /\ LastExposed
   /\ LastHandler \in {"IntegerQueryColumn", "BooleanQueryColumn"}
   /\ LastTuple.func = NoName
   /\ LastTuple.value \in {StrV(<<"True">>), StrV(<<"False">>)})
    => /\ FilterAdded
       /\ AddedFilter.value.t = "bool"

LabelCall ==
  /\ Called
  /\ LastExposed
  /\ LastHandler = "FormatedQueryColumn"
  /\ LastTuple.func = NoName
  /\ LastTuple.value.t = "str"
  /\ LastTuple.value.s \in Labels

\* the key the value map stores for a label
KeyOf(label) == CHOOSE k \in DOMAIN value_map : value_map[k] = label

\* C25 (as stated): for a label on an exposed formatted column the filter
\* receives the stored integer key of the label.
C25_FilterGetsStoredKey ==
  LabelCall =>
    /\ FilterAdded
    /\ AddedFilter.value = IntV(KeyOf(LastTuple.value.s))

\* C25 (amended): the handler maps the label to its key, and convert_formatted
\* maps the key back, so the filter receives the label as it was sent.
C25_FilterGetsLabel ==
  LabelCall =>
    /\ FilterAdded
    /\ "_reverse_value_map_query" \in {last.log[i] : i \in 1..Len(last.log)}
    /\ AddedFilter.column = LastTuple.column
    /\ AddedFilter.value = LastTuple.value

\* status=active was dispatched on Account and the filter added
C25_Witness ==
  /\ LabelCall
  /\ cls = Account
  /\ LastTuple.value = StrV(<<"active">>)
  /\ FilterAdded
  /\ pc = "done"

\* C26: every column the built query filters or orders by is an exposed field
\* of the entity; order_by on a column outside the exposed set is rejected
\* with the field-exposure error.
C26_OnlyExposedColumnsRead ==
  /\ \A i \in 1..Len(query.filters) :
       query.filters[i].column \in cls.exposed_fields
  /\ \A i \in 1..Len(query.order) :
       query.order[i].column \in cls.exposed_fields
  /\ (OrderByCall /\ LastTuple.column = NoName
        /\ Ordering(LastTuple.value.s).column \notin cls.exposed_fields)
       => /\ pc = "raised" => error.err.category = "fields"
          /\ ~last.applied

\* C27: a function name that is not one of the operator methods, on an
\* exposed column, invokes nothing and raises the query-construction
\* InvalidFormError.
C27_OnlyOperatorsSelectable ==
  (/\ Called
   /\ LastExposed
   /\ LastHandler \notin {"DateTimeQueryColumn", "FormatedQueryColumn"}
   /\ LastTuple.func # NoName
   /\ ~(Len(LastTuple.func) = 1 /\ LastTuple.func[1] \in Operators))
    => /\ last.err.exc = "InvalidFormError"
       /\ last.err.category = "query_construction"
       /\ ~last.applied

\* ------------------------------------------------ ApiResponse (SpecResponse)
Success == response.status_code \div 100 = 2
HeaderNames == DictKeys(response.headers)

\* C21: an ApiResponse with a 2xx status built from a Pagination object
\* answers with the list of every item's api_response(), in the items'
\* order, and with an X-Pagination header.
C21_PaginationBodyAndHeader ==
  (response.stage = "sent" /\ Success /\ response.data.kind = "Pagination")
    => /\ response.body.kind = "list"
       /\ Len(response.body.items) = Len(response.data.items)
       /\ \A i \in 1..Len(response.data.items) :
            /\ response.body.items[i].id = response.data.items[i].id
            /\ response.body.items[i].formatted
       /\ "X-Pagination" \in HeaderNames

Constructed == response.stage \in {"built", "sent"}
Admin == response.user.has_is_admin /\ response.user.is_admin
Passed == response.results = response.data /\ response.pagination = <<>>

C28_NoLostUpdate ==
  /\ redis.exists => redis.value = window.calls
  /\ window.enabled => window.allowed <= window.limit

\* C29: a counter key that exists has an expiry, in every reachable state.
C29_CounterKeyExpires ==
  redis.exists => redis.expires

\* ------------------------------------------------- TOTPDevice (SpecDevice)
\* C30: a token verify_token has accepted for a time step is rejected when
\* it is submitted again for that time step.
C30_NoTokenAcceptedTwice ==
  attempt.again => ~attempt.ok

====
